---- MODULE Spec2Model ----
(***************************************************************************)
(* Model of FFBAnalysis.py: LeagueSettings, PlayerProfile and FFBAnalyzer.  *)
(*                                                                         *)
(* Python strings are sequences of one-character strings, so that          *)
(* str.split, str.title, str.upper and str.replace are computed and not    *)
(* assumed.  Scoring weights and point totals are kept in hundredths of a  *)
(* point (0.04 is 4, 6 is 600), which makes the weighted sum exact.        *)
(***************************************************************************)
EXTENDS Integers, Sequences, FiniteSets, TLC

\* ---------------------------------------------------------------- bounds
MaxPlayers == 2   \* longest player list the registry is driven to
MaxNames == 2     \* longest name list handed to AddPlayers / PlotPlayerPoints

\* ------------------------------------------------------- python strings
LowerAlpha == <<"a","b","c","d","e","f","g","h","i","j","k","l","m",
                "n","o","p","q","r","s","t","u","v","w","x","y","z">>
UpperAlpha == <<"A","B","C","D","E","F","G","H","I","J","K","L","M",
                "N","O","P","Q","R","S","T","U","V","W","X","Y","Z">>

\* the characters that occur in a name, a column header or an attribute name
OtherChars == {" ", ",", "_", "0", "2", "3", "4", "5"}
Chars == {LowerAlpha[i] : i \in 1..26} \cup {UpperAlpha[i] : i \in 1..26} \cup OtherChars

IsLower(c) == \E i \in 1..Len(LowerAlpha) : LowerAlpha[i] = c
IsUpper(c) == \E i \in 1..Len(UpperAlpha) : UpperAlpha[i] = c

\* the case tables of the characters
Cased == {c \in Chars : IsLower(c) \/ IsUpper(c)}
ToUpper ==
  [c \in Chars |->
     IF IsLower(c) THEN UpperAlpha[CHOOSE i \in 1..Len(LowerAlpha) : LowerAlpha[i] = c] ELSE c]
ToLower ==
  [c \in Chars |->
     IF IsUpper(c) THEN LowerAlpha[CHOOSE i \in 1..Len(UpperAlpha) : UpperAlpha[i] = c] ELSE c]

IsCased(c) == c \in Cased
UpperChar(c) == ToUpper[c]
LowerChar(c) == ToLower[c]

\* str.upper()
StrUpper(s) == [i \in 1..Len(s) |-> UpperChar(s[i])]

\* str.title(): a cased character is upper-cased when the character before it
\* is not cased (or there is none) and lower-cased otherwise.
StrTitle(s) ==
  [i \in 1..Len(s) |->
     IF IsCased(s[i])
     THEN IF i > 1 /\ IsCased(s[i-1]) THEN LowerChar(s[i]) ELSE UpperChar(s[i])
     ELSE s[i]]

\* str.replace(old, new) for one-character old and new
StrReplace(s, old, new) == [i \in 1..Len(s) |-> IF s[i] = old THEN new ELSE s[i]]

\* the members of a finite set of integers in ascending order
SortedSeq(S) ==
  CHOOSE s \in [1..Cardinality(S) -> S] : \A i, j \in 1..Cardinality(S) : i < j => s[i] < s[j]

\* str.split(' ') with the maxsplit argument forgotten: cut at every space
SplitEverySpace(s) ==
  LET sp == SortedSeq({i \in 1..Len(s) : s[i] = " "})
      n == Len(sp)
  IN [k \in 1..(n + 1) |->
        SubSeq(s, IF k = 1 THEN 1 ELSE sp[k-1] + 1, IF k = n + 1 THEN Len(s) ELSE sp[k] - 1)]

\* str.split(' ', maxsplit=1): cut at the first space, or the whole string
SplitOnce(s) ==
  IF \E i \in 1..Len(s) : s[i] = " "
  THEN LET i == CHOOSE j \in 1..Len(s) : s[j] = " " /\ \A k \in 1..(j-1) : s[k] # " "
       IN << SubSeq(s, 1, i-1), SubSeq(s, i+1, Len(s)) >>
  ELSE << s >>

\* '%s, %s' % (last_name.title(), first_name.title())
NameCombo(first_name, last_name) ==
  StrTitle(last_name) \o <<",", " ">> \o StrTitle(first_name)

\* ------------------------------------------------------- LeagueSettings
k_passing_yards == <<"p","a","s","s","i","n","g","_","y","a","r","d","s">>
k_passing_tds == <<"p","a","s","s","i","n","g","_","t","d","s">>
k_interceptions == <<"i","n","t","e","r","c","e","p","t","i","o","n","s">>
k_rushing_yards == <<"r","u","s","h","i","n","g","_","y","a","r","d","s">>
k_rushing_tds == <<"r","u","s","h","i","n","g","_","t","d","s">>
k_receptions == <<"r","e","c","e","p","t","i","o","n","s">>
k_receiving_yards == <<"r","e","c","e","i","v","i","n","g","_","y","a","r","d","s">>
k_receiving_tds == <<"r","e","c","e","i","v","i","n","g","_","t","d","s">>
k_two_pt_conversions == <<"t","w","o","_","p","t","_","c","o","n","v","e","r","s","i","o","n","s">>
k_fumbles_lost == <<"f","u","m","b","l","e","s","_","l","o","s","t">>
k_offensive_fumble_return_tds == <<"o","f","f","e","n","s","i","v","e","_","f","u","m","b","l","e","_","r","e","t","u","r","n","_","t","d","s">>
k_yards_40_plus == <<"y","a","r","d","s","_","4","0","_","p","l","u","s">>
k_tds_40_plus == <<"t","d","s","_","4","0","_","p","l","u","s">>
k_fg_20 == <<"f","g","_","2","0">>
k_fg_30 == <<"f","g","_","3","0">>
k_fg_40 == <<"f","g","_","4","0">>
k_fg_50 == <<"f","g","_","5","0">>
k_fg_50_plus == <<"f","g","_","5","0","_","p","l","u","s">>
k_extra_point == <<"e","x","t","r","a","_","p","o","i","n","t">>

\* LeagueSettings.__init__: the attribute dictionary in insertion order,
\* each attribute with its weight in hundredths of a point.
DefaultSettings ==
  << <<k_passing_yards, 4>>,
     <<k_passing_tds, 400>>,
     <<k_interceptions, -100>>,
     <<k_rushing_yards, 10>>,
     <<k_rushing_tds, 600>>,
     <<k_receptions, 50>>,
     <<k_receiving_yards, 10>>,
     <<k_receiving_tds, 600>>,
     <<k_two_pt_conversions, 200>>,
     <<k_fumbles_lost, -200>>,
     <<k_offensive_fumble_return_tds, 600>>,
     <<k_yards_40_plus, 0>>,
     <<k_tds_40_plus, 0>>,
     <<k_fg_20, 300>>,
     <<k_fg_30, 300>>,
     <<k_fg_40, 300>>,
     <<k_fg_50, 400>>,
     <<k_fg_50_plus, 500>>,
     <<k_extra_point, 100>> >>

\* setattr(settings, key, value) on a fresh LeagueSettings
SetAttr(settings, key, value) ==
  [i \in 1..Len(settings) |->
     IF settings[i][1] = key THEN <<key, value>> ELSE settings[i]]

\* a points-per-reception league with six-point passing touchdowns
PprSettings == SetAttr(SetAttr(DefaultSettings, k_receptions, 100), k_passing_tds, 600)

SettingsSet == {DefaultSettings, PprSettings}

\* ------------------------------------------------------------ stat data
\* column headers (columns 13 onwards of a game log)
c_Passing_Yards == <<"P","a","s","s","i","n","g"," ","Y","a","r","d","s">>
c_Passing_Tds == <<"P","a","s","s","i","n","g"," ","T","d","s">>
c_Interceptions == <<"I","n","t","e","r","c","e","p","t","i","o","n","s">>
c_Rushing_TDs == <<"R","u","s","h","i","n","g"," ","T","D","s">>
c_Longest_Rushing_Run == <<"L","o","n","g","e","s","t"," ","R","u","s","h","i","n","g"," ","R","u","n">>
c_Rushing_Yards == <<"R","u","s","h","i","n","g"," ","Y","a","r","d","s">>
c_Receptions == <<"R","e","c","e","p","t","i","o","n","s">>
c_Longest_Reception == <<"L","o","n","g","e","s","t"," ","R","e","c","e","p","t","i","o","n">>
c_Receiving_Yards == <<"R","e","c","e","i","v","i","n","g"," ","Y","a","r","d","s">>
c_Extra_Point == <<"E","x","t","r","a"," ","P","o","i","n","t">>
c_Fg_50_Plus == <<"F","g"," ","5","0"," ","P","l","u","s">>
c_Punts == <<"P","u","n","t","s">>
c_Sacks == <<"S","a","c","k","s">>
c_Games_Started == <<"G","a","m","e","s"," ","S","t","a","r","t","e","d">>

\* player names as a caller writes them, and as the Name column holds them
n_t_b == <<"t"," ","b">>
n_T_B == <<"T"," ","B">>
n_p == <<"p">>
n_a_b_c == <<"a"," ","b"," ","c">>
n_z_z == <<"z"," ","z">>
n_k_k == <<"k"," ","k">>
r_B_T == <<"B",","," ","T">>
r_B_C_A == <<"b"," ","c",","," ","a">>
r_K_K == <<"K",","," ","K">>
r_Z_P == <<"Z",","," ","P">>
r_D_D == <<"D",","," ","D">>

\* a cell of a game log: a number, or text such as the "--" of an empty cell
Num(n) == <<"num", n>>
Txt(s) == <<"txt", s>>
NoData == Txt("--")

\* one game-log row: the identity columns the code reads, and the stat columns
Row(name, season, week, year, stats) ==
  [Name |-> name, Season |-> season, Week |-> week, Year |-> year, stats |-> stats]

QbStats(yds, tds, ints, rtd, lng) ==
  (c_Passing_Yards :> yds) @@ (c_Passing_Tds :> tds) @@ (c_Interceptions :> ints)
  @@ (c_Rushing_TDs :> rtd) @@ (c_Longest_Rushing_Run :> lng)
RbStats(yds, rec, lng) ==
  (c_Rushing_Yards :> yds) @@ (c_Receptions :> rec) @@ (c_Longest_Reception :> lng)
WrStats(rec, yds) == (c_Receptions :> rec) @@ (c_Receiving_Yards :> yds)
KStats(xp, fg) == (c_Extra_Point :> xp) @@ (c_Fg_50_Plus :> fg)

\* the game logs of directory 'Data'
Data_k == << Row(r_K_K, "Regular Season", 1, 2016, KStats(Num(3), Num(1))),
             Row(r_K_K, "Regular Season", 17, 2016, KStats(Num(2), NoData)) >>
Data_p == << Row(r_K_K, "Regular Season", 2, 2016, (c_Punts :> Num(5))),
             Row(r_Z_P, "Regular Season", 2, 2015, (c_Punts :> Num(4))) >>
Data_qb ==
  << Row(r_B_T, "Regular Season", 1, 2016, QbStats(Num(2500), Num(20), NoData, Num(1), Txt("12T"))),
     Row(r_B_T, "Regular Season", 2, 2016, QbStats(Num(1500), Num(10), Num(10), Num(0), NoData)),
     Row(r_B_T, "Regular Season", 17, 2016, QbStats(Num(300), Num(2), Num(1), Num(0), Num(5))),
     Row(r_B_T, "Postseason", 18, 2016, QbStats(Num(200), Num(1), Num(0), Num(0), Num(7))),
     Row(r_B_T, "Postseason", 17, 2016, QbStats(Num(100), Num(1), Num(1), Num(0), Num(3))),
     Row(r_B_T, "Preseason", 1, 2016, QbStats(Num(50), Num(0), Num(0), Num(0), Num(2))),
     Row(r_B_T, "Regular Season", 3, 2015, QbStats(Num(1000), NoData, Num(2), Num(1), Num(9))),
     Row(r_B_T, "Postseason", 19, 2014, QbStats(Num(250), Num(3), NoData, Num(0), NoData)) >>
Data_rb == << Row(r_B_C_A, "Regular Season", 4, 2016, RbStats(Num(100), Num(4), Txt("34T"))),
              Row(r_B_C_A, "Postseason", 18, 2016, RbStats(Num(60), NoData, Num(8))) >>
Data_wr == << Row(r_B_C_A, "Regular Season", 5, 2015, WrStats(Num(7), Num(90))) >>
Data_dline == << Row(r_D_D, "Regular Season", 1, 2016, (c_Sacks :> Num(2))) >>
Data_oline == << Row(r_D_D, "Regular Season", 6, 2015, (c_Games_Started :> Num(1))) >>

\* the game logs of directory 'Data2': the same players in other position
\* files, a quarterback file with no rows, week 17 only for one player, and
\* a postseason row whose yardage cell is text that is no number
Data2_k == << Row(r_B_T, "Regular Season", 17, 2016, KStats(Num(4), Num(2))) >>
Data2_rb == << Row(r_B_T, "Regular Season", 1, 2016, RbStats(Num(80), Num(2), NoData)),
               Row(r_K_K, "Postseason", 18, 2015, RbStats(Txt("1,024"), Num(1), Txt("9T"))),
               Row(r_K_K, "Regular Season", 2, 2015, RbStats(NoData, NoData, NoData)) >>
Data2_oline == << Row(r_B_C_A, "Regular Season", 3, 2016, (c_Games_Started :> Num(1))) >>

\* the files a directory holds, in the order LoadNflData reads them into
\* dl_list: kickers, punters, quarterbacks, running backs, receivers,
\* defensive line, offensive line
FileSystem(filepath) ==
  CASE filepath = "Data"  -> << Data_k, Data_p, Data_qb, Data_rb, Data_wr, Data_dline, Data_oline >>
    [] filepath = "Data2" -> << Data2_k, Data_p, << >>, Data2_rb, Data_wr, Data_dline, Data2_oline >>

ValidPaths == {"Data", "Data2"}
MissingPath == "NoSuchDir"

\* ------------------------------------------- PlayerProfile.CalculatePlayerPoints
\* value of an attribute that holds None, and of one that holds a series
NoneValue == [isNone |-> TRUE, rows |-> << >>]
Series(rows) == [isNone |-> FALSE, rows |-> rows]

\* PlayerProfile.__init__ (the attributes the code reads later)
NewProfile(name) == [name |-> name, league_points |-> NoneValue]

\* lines 57-62: the loop leaves df_single at the first frame whose Name column
\* holds the name, and at the last frame of the list when none does
HasName(df, name_combo) ==
  \E i \in 1..Len(df) : StrUpper(df[i].Name) = StrUpper(name_combo)
SelectFrame(df_list, name_combo) ==
  IF \E i \in 1..Len(df_list) : HasName(df_list[i], name_combo)
  THEN df_list[CHOOSE i \in 1..Len(df_list) :
                  /\ HasName(df_list[i], name_combo)
                  /\ \A j \in 1..(i-1) : ~HasName(df_list[j], name_combo)]
  ELSE df_list[Len(df_list)]

\* lines 64-80: the boolean mask of the player's rows
check1(row, name_combo) == StrUpper(row.Name) = StrUpper(name_combo)
check2(row) == row.Season = "Regular Season"
check3(row) == row.Season = "Postseason"
check4(row) == row.Week # 17
\* the mask with week 17 dropped from the regular season only
check_bool_regular17(row, name_combo, include_post_season, remove_week17) ==
  /\ check1(row, name_combo)
  /\ IF include_post_season THEN (check2(row) \/ check3(row)) ELSE check2(row)
  /\ (remove_week17 => (check4(row) \/ check3(row)))

check_bool(row, name_combo, include_post_season, remove_week17) ==
  /\ check1(row, name_combo)
  /\ IF include_post_season THEN (check2(row) \/ check3(row)) ELSE check2(row)
  /\ (remove_week17 => check4(row))

\* line 83: df_player.replace('--', 0)
ReplaceNoData(cell) == IF cell[1] = "txt" /\ cell[2] = "--" THEN Num(0) ELSE cell
ReplaceRow(row) ==
  [row EXCEPT !.stats = [c \in DOMAIN row.stats |-> ReplaceNoData(row.stats[c])]]

FilterPlayer(df, name_combo, include_post_season, remove_week17) ==
  LET kept == SelectSeq(df, LAMBDA row :
                  check_bool(row, name_combo, include_post_season, remove_week17))
  IN [i \in 1..Len(kept) |-> ReplaceRow(kept[i])]

\* line 86: np.unique(df_player['Year']), the distinct years in ascending order
UniqueYears(player_rows) == SortedSeq({player_rows[i].Year : i \in 1..Len(player_rows)})

\* lines 85, 91-92: the columns that are summed
exception_cols == { c_Longest_Reception, c_Longest_Rushing_Run }
SummedCols(df_player_year) ==
  IF Len(df_player_year) = 0 THEN {}
  ELSE (DOMAIN df_player_year[1].stats) \ exception_cols

\* line 93: astype(float) raises on a cell that is still text
FloatFails(df_player_year) ==
  \E i \in 1..Len(df_player_year) : \E c \in SummedCols(df_player_year) :
     df_player_year[i].stats[c][1] # "num"

\* line 95: df_player_year.sum(), one total per column
SumCol(df, c) ==
  LET total[i \in 0..Len(df)] == IF i = 0 THEN 0 ELSE total[i - 1] + df[i].stats[c][2]
  IN total[Len(df)]
player_year_stats(df_player_year) ==
  [c \in SummedCols(df_player_year) |-> SumCol(df_player_year, c)]

\* line 100 with the call of title() forgotten
new_key_untitled(key) == StrReplace(key, "_", " ")

\* line 100: key.replace('_', ' ').title()
new_key(key) == StrTitle(StrReplace(key, "_", " "))

\* lines 97-103: the weighted sum over the attributes of league_settings; an attribute
\* with no column of that title raises KeyError and is skipped
PointsLoop(stats, settings) ==
  LET points[i \in 0..Len(settings)] ==
        IF i = 0 THEN 0
        ELSE LET key == settings[i][1]
                 value == settings[i][2]
             IN IF new_key(key) \in DOMAIN stats
                THEN points[i - 1] + stats[new_key(key)] * value
                ELSE points[i - 1]
  IN points[Len(settings)]

YearRows(player_rows, year) == SelectSeq(player_rows, LAMBDA row : row.Year = year)
YearPoints(player_rows, year, settings) ==
  PointsLoop(player_year_stats(YearRows(player_rows, year)), settings)

\* The whole method.  The result names the exception that leaves the method
\* ("none" on return), the frame assigned to league_points on line 109 and
\* the local player_rows.
CalculatePlayerPoints(name, df_list, settings, include_post_season, remove_week17) ==
  LET parts == SplitOnce(name)
  IN IF Len(parts) # 2
     THEN [err |-> "ValueError: not enough values to unpack",
           df_output |-> << >>, df_player |-> << >>]
     ELSE
       LET name_combo == NameCombo(parts[1], parts[2])
           df == SelectFrame(df_list, name_combo)
           player_rows == FilterPlayer(df, name_combo, include_post_season, remove_week17)
           years == UniqueYears(player_rows)
       IN IF \E k \in 1..Len(years) : FloatFails(YearRows(player_rows, years[k]))
          THEN [err |-> "ValueError: could not convert string to float",
                df_output |-> << >>, df_player |-> player_rows]
          ELSE [err |-> "none",
                df_output |->
                  [k \in 1..Len(years) |->
                      [years |-> years[k],
                       points |-> YearPoints(player_rows, years[k], settings)]],
                df_player |-> player_rows]

\* ----------------------------------------------------------------- inputs
PlayerNames == { n_t_b, n_T_B, n_p, n_a_b_c, n_z_z, n_k_k }
\* the names a registry is asked for
RegistryNames == { n_t_b, n_p, n_z_z }

SeqsUpTo(S, n) == UNION { [1..k -> S] : k \in 0..n }
NameLists == SeqsUpTo(RegistryNames, MaxNames)
\* the name lists AddPlayers is called with
BatchLists == SeqsUpTo({ n_t_b, n_p }, MaxNames)

\* CalculatePlayerPoints tabulated over the inputs above: the method reads
\* nothing but its arguments, so a call is a lookup of its result.  (The
\* trailing @@ << >> makes TLC build the table once, not at every lookup.)
FrameLists == { FileSystem(filepath) : filepath \in ValidPaths }
PointsTable ==
  [a \in PlayerNames \X FrameLists \X SettingsSet \X BOOLEAN \X BOOLEAN |->
     CalculatePlayerPoints(a[1], a[2], a[3], a[4], a[5])] @@ << >>
Calc(name, df_list, settings, include_post_season, remove_week17) ==
  PointsTable[<< name, df_list, settings, include_post_season, remove_week17 >>]

\* the directories a registry is pointed at
LoadPaths == { "Data", MissingPath }

NoArg == [isNone |-> TRUE, value |-> << >>]
Arg(v) == [isNone |-> FALSE, value |-> v]

\* ------------------------------------------------------------------ state
VARIABLES
  players,          \* FFBAnalyzer.players
  league_settings,  \* FFBAnalyzer.league_settings
  dl_list,          \* FFBAnalyzer.dl_list: whether the attribute exists, and its frames
  lastOp,           \* the method called last and its argument
  err,              \* the exception that left it, "none" when it returned
  ret,              \* the value it returned
  pre,              \* players and league_settings as they were when it was called
  addLog,           \* the names of the AddPlayer calls that returned, in call order
  profile,          \* a PlayerProfile held by a caller outside any registry
  call,             \* the arguments of the last CalculatePlayerPoints on it
  calc_err,         \* the exception that left that call
  calc_df_player    \* the local df_player of that call

vars == << players, league_settings, dl_list, lastOp, err, ret, pre, addLog,
           profile, call, calc_err, calc_df_player >>
regVars == << players, league_settings, dl_list, lastOp, err, ret, pre, addLog >>
calcVars == << profile, call, calc_err, calc_df_player >>

\* an object attribute that was never assigned, that holds None, or a list.
\* Line 182 tests dl_list for None, but no statement of the class assigns it
\* None: __init__ leaves it unassigned and LoadNflData assigns the list.
AttrUnset == [state |-> "unset", frames |-> << >>]
AttrNone == [state |-> "none", frames |-> << >>]
AttrList(frames) == [state |-> "list", frames |-> frames]

NoReturn == [kind |-> "none", value |-> << >>]
NoCall == [made |-> FALSE, df_list |-> << >>, league_settings |-> << >>,
           include_post_season |-> FALSE, remove_week17 |-> TRUE]

\* ---------------------------------------------------------- FFBAnalyzer
\* LoadNflData: read_csv of a file that is not there raises before dl_list
\* is assigned
LoadResult(filepath, old_dl_list) ==
  IF filepath \in ValidPaths
  THEN [err |-> "none", dl_list |-> AttrList(FileSystem(filepath))]
  ELSE [err |-> "FileNotFoundError", dl_list |-> old_dl_list]

\* lines 185-187: what AddPlayer does with the outcome r of the calculation
StorePlayer(ps, player, r) ==
  IF r.err # "none"
  THEN [err |-> r.err, players |-> ps, ret |-> NoReturn, added |-> << >>]
  ELSE [err |-> "none",
        players |-> ps \o << [player EXCEPT !.league_points = Series(r.df_output)] >>,
        ret |-> [kind |-> "profile",
                 value |-> [player EXCEPT !.league_points = Series(r.df_output)]],
        added |-> << player.name >>]

\* AddPlayer that returns the stored profile of a name it already holds
AddPlayerDeduplicated(ps, dl, settings, player_name) ==
  IF dl.state = "unset"
  THEN [err |-> "AttributeError: no attribute 'dl_list'", players |-> ps,
        ret |-> NoReturn, added |-> << >>]
  ELSE IF dl.state = "none"
  THEN [err |-> "NameError: NFL data has not been loaded yet", players |-> ps,
        ret |-> NoReturn, added |-> << >>]
  ELSE IF \E i \in 1..Len(ps) : ps[i].name = player_name
  THEN [err |-> "none", players |-> ps,
        ret |-> [kind |-> "profile",
                 value |-> ps[CHOOSE i \in 1..Len(ps) : ps[i].name = player_name]],
        added |-> << >>]
  ELSE StorePlayer(ps, NewProfile(player_name),
                   Calc(player_name, dl.frames, settings, FALSE, TRUE))

\* AddPlayer, lines 179-187.  __init__ assigns no dl_list, so on a registry
\* that never loaded, reading self.dl_list raises AttributeError.
AddPlayerResult(ps, dl, settings, player_name) ==
  IF dl.state = "unset"
  THEN [err |-> "AttributeError: no attribute 'dl_list'", players |-> ps,
        ret |-> NoReturn, added |-> << >>]
  ELSE IF dl.state = "none"
  THEN [err |-> "NameError: NFL data has not been loaded yet", players |-> ps,
        ret |-> NoReturn, added |-> << >>]
  ELSE StorePlayer(ps, NewProfile(player_name),
                   Calc(player_name, dl.frames, settings, FALSE, TRUE))

\* UpdatePlayerScores, lines 167-173.  The call on line 172 passes one
\* argument to a method that requires two, so it raises TypeError at the
\* first player; with no players the loop body never runs.
UpdateResult(ps, dl) ==
  IF Len(ps) = 0 THEN [err |-> "none", players |-> << >>]
  ELSE IF dl.state = "unset"
  THEN [err |-> "AttributeError: no attribute 'dl_list'", players |-> ps]
  ELSE [err |-> "TypeError: missing 1 required positional argument: 'league_settings'",
        players |-> ps]

\* the search without its else branch: a loop that finds nothing leaves
\* player at the last profile of the list
FindPlayerNoElse(ps, player_name) ==
  IF \E i \in 1..Len(ps) : ps[i].name = player_name
  THEN [found |-> TRUE,
        player |-> ps[CHOOSE i \in 1..Len(ps) :
                        /\ ps[i].name = player_name
                        /\ \A j \in 1..(i-1) : ps[j].name # player_name]]
  ELSE IF Len(ps) > 0 THEN [found |-> TRUE, player |-> ps[Len(ps)]]
  ELSE [found |-> FALSE, player |-> NewProfile(player_name)]

\* PlotPlayerPoints, lines 200-216: the search of self.players for one name
FindPlayer(ps, player_name) ==
  IF \E i \in 1..Len(ps) : ps[i].name = player_name
  THEN [found |-> TRUE,
        player |-> ps[CHOOSE i \in 1..Len(ps) :
                        /\ ps[i].name = player_name
                        /\ \A j \in 1..(i-1) : ps[j].name # player_name]]
  ELSE [found |-> FALSE, player |-> NewProfile(player_name)]

\* line 216: the line plt.plot draws for a profile
PlotLine(player) == [label |-> player.name, data |-> player.league_points.rows]

\* lines 210-216: one pass of the loop body, given the outcome f of the search
\* and the outcome a of AddPlayer; st holds the player list, the lines drawn
\* and the names added so far
PlotPass(st, f, a) ==
  IF f.found
  THEN [st EXCEPT !.lines = Append(@, PlotLine(f.player))]
  ELSE IF a.err # "none"
  THEN [st EXCEPT !.err = a.err]
  ELSE [err |-> "none", players |-> a.players,
        lines |-> Append(st.lines, PlotLine(a.ret.value)),
        added |-> st.added \o a.added]

\* the loop of line 200; an exception ends it
PlotStep(st, player_name, dl, settings) ==
  IF st.err # "none" THEN st
  ELSE PlotPass(st, FindPlayer(st.players, player_name),
                AddPlayerResult(st.players, dl, settings, player_name))

PlotLoop(names, ps, dl, settings) ==
  LET st[i \in 0..Len(names)] ==
        IF i = 0
        THEN [err |-> "none", players |-> ps, lines |-> << >>, added |-> << >>]
        ELSE PlotStep(st[i - 1], names[i], dl, settings)
  IN st[Len(names)]

PlotResult(ps, dl, settings, player_name_list) ==
  LET added_player_names == [i \in 1..Len(ps) |-> ps[i].name]
  IN PlotLoop(IF player_name_list.isNone THEN added_player_names
              ELSE player_name_list.value,
              ps, dl, settings)

\* ---------------------------------------------------------------- actions
Snapshot == [players |-> players, league_settings |-> league_settings]

\* FFBAnalyzer(filepath, league_settings)
Init ==
  /\ players = << >>
  /\ league_settings \in SettingsSet
  /\ \E filepath \in {"Data", "None"} :
       /\ dl_list = IF filepath = "None" THEN AttrUnset ELSE AttrList(FileSystem(filepath))
       /\ lastOp = [op |-> "__init__",
                    arg |-> IF filepath = "None" THEN NoArg ELSE Arg(filepath)]
  /\ err = "none"
  /\ ret = NoReturn
  /\ pre = [players |-> << >>, league_settings |-> league_settings]
  /\ addLog = << >>
  /\ profile = NewProfile(n_t_b)
  /\ call = NoCall
  /\ calc_err = "none"
  /\ calc_df_player = << >>

LoadNflData(filepath) ==
  \E r \in { LoadResult(filepath, dl_list) } :
     /\ dl_list' = r.dl_list
     /\ err' = r.err
     /\ ret' = NoReturn
     /\ lastOp' = [op |-> "LoadNflData", arg |-> Arg(filepath)]
     /\ pre' = Snapshot
     /\ UNCHANGED << players, league_settings, addLog >>
     /\ UNCHANGED calcVars

ChangeLeagueSettings(new_league_settings) ==
  \E r \in { UpdateResult(players, dl_list) } :
     /\ league_settings' = new_league_settings
     /\ players' = r.players
     /\ err' = r.err
     /\ ret' = NoReturn
     /\ lastOp' = [op |-> "ChangeLeagueSettings", arg |-> Arg(new_league_settings)]
     /\ pre' = Snapshot
     /\ UNCHANGED << dl_list, addLog >>
     /\ UNCHANGED calcVars

AddPlayer(player_name) ==
  \E r \in { AddPlayerResult(players, dl_list, league_settings, player_name) } :
     /\ Len(players) < MaxPlayers
     /\ players' = r.players
     /\ err' = r.err
     /\ ret' = r.ret
     /\ addLog' = addLog \o r.added
     /\ lastOp' = [op |-> "AddPlayer", arg |-> Arg(player_name)]
     /\ pre' = Snapshot
     /\ UNCHANGED << league_settings, dl_list >>
     /\ UNCHANGED calcVars

\* AddPlayers, lines 189-191: the loop reads the global name players, which
\* the module never defines, instead of its parameter player_names
AddPlayers(player_names) ==
  /\ err' = "NameError: name 'players' is not defined"
  /\ ret' = NoReturn
  /\ lastOp' = [op |-> "AddPlayers", arg |-> Arg(player_names)]
  /\ pre' = Snapshot
  /\ UNCHANGED << players, league_settings, dl_list, addLog >>
  /\ UNCHANGED calcVars

PlotPlayerPoints(player_name_list) ==
  \E r \in { PlotResult(players, dl_list, league_settings, player_name_list) } :
     /\ Len(r.players) <= MaxPlayers
     /\ players' = r.players
     /\ err' = r.err
     /\ ret' = IF r.err = "none" THEN [kind |-> "figure", value |-> r.lines] ELSE NoReturn
     /\ addLog' = addLog \o r.added
     /\ lastOp' = [op |-> "PlotPlayerPoints", arg |-> player_name_list]
     /\ pre' = Snapshot
     /\ UNCHANGED << league_settings, dl_list >>
     /\ UNCHANGED calcVars

Next ==
  \/ \E filepath \in LoadPaths : LoadNflData(filepath)
  \/ \E s \in SettingsSet : ChangeLeagueSettings(s)
  \/ \E n \in RegistryNames : AddPlayer(n)
  \/ \E ns \in BatchLists : AddPlayers(ns)
  \/ \E ns \in NameLists : PlotPlayerPoints(Arg(ns))
  \/ PlotPlayerPoints(NoArg)

Spec == Init /\ [][Next]_vars

\* ------------------------------- a PlayerProfile used without a registry
\* PlayerProfile(name)
Construct(name) ==
  /\ profile' = NewProfile(name)
  /\ call' = NoCall
  /\ calc_err' = "none"
  /\ calc_df_player' = << >>
  /\ UNCHANGED regVars

\* profile.CalculatePlayerPoints(df_list, league_settings, include_post_season, remove_week17)
Calculate(filepath, settings, include_post_season, remove_week17) ==
  \E r \in { Calc(profile.name, FileSystem(filepath), settings,
                  include_post_season, remove_week17) } :
     /\ profile' = IF r.err = "none"
                   THEN [profile EXCEPT !.league_points = Series(r.df_output)]
                   ELSE profile
     /\ call' = [made |-> TRUE, df_list |-> FileSystem(filepath),
                 league_settings |-> settings,
                 include_post_season |-> include_post_season,
                 remove_week17 |-> remove_week17]
     /\ calc_err' = r.err
     /\ calc_df_player' = r.df_player
     /\ UNCHANGED regVars

CalcInit ==
  /\ Init
  /\ lastOp.arg.isNone
  /\ league_settings = DefaultSettings

CalcNext ==
  \/ \E n \in PlayerNames : Construct(n)
  \/ \E filepath \in ValidPaths, s \in SettingsSet, p \in BOOLEAN, w \in BOOLEAN :
       Calculate(filepath, s, p, w)

CalcSpec == CalcInit /\ [][CalcNext]_vars
\* =================================================================== claims
ErrUnpack == "ValueError: not enough values to unpack"
ErrDataNotLoaded == "NameError: NFL data has not been loaded yet"

HasSpace(s) == \E i \in 1..Len(s) : s[i] = " "
\* the number of space-separated parts of a name that are not empty
NumTokens(s) ==
  Cardinality({i \in 1..Len(s) : s[i] # " " /\ (i = 1 \/ s[i-1] = " ")})
NamesOf(ps) == [i \in 1..Len(ps) |-> ps[i].name]
\* the key a caller's name has in the Name column
KeyOf(name) == NameCombo(SplitOnce(name)[1], SplitOnce(name)[2])
InSomeTable(name, frames) ==
  \E i \in 1..Len(frames) : \E j \in 1..Len(frames[i]) :
     StrUpper(frames[i][j].Name) = StrUpper(KeyOf(name))
FreshSeries(name) ==
  Series(CalculatePlayerPoints(name, dl_list.frames, league_settings, FALSE, TRUE).df_output)

\* C1: every stored profile's point series is the one CalculatePlayerPoints
\* gives for that player under the active league settings, and
\* ChangeLeagueSettings on a registry that holds players returns.
C1_SeriesFollowSettings ==
  /\ dl_list.state = "list" =>
        \A i \in 1..Len(players) :
           players[i].league_points = FreshSeries(players[i].name)
  /\ (lastOp.op = "ChangeLeagueSettings" /\ Len(pre.players) >= 1) => err = "none"

\* C2: AddPlayer on a registry that never loaded its game logs raises the
\* NameError 'NFL data has not been loaded yet' and no other error.
C2_UnloadedRaisesDataNotLoaded ==
  (lastOp.op = "AddPlayer" /\ dl_list.state # "list") => err = ErrDataNotLoaded

\* C3: AddPlayer of a first-and-last name that no game log holds raises
\* PlayerNotFound and stores no profile.
C3_UnknownNameRaises ==
  ( /\ lastOp.op = "AddPlayer"
    /\ dl_list.state = "list"
    /\ HasSpace(lastOp.arg.value)
    /\ ~InSomeTable(lastOp.arg.value, dl_list.frames) )
  => (err = "PlayerNotFound" /\ players = pre.players)

\* C4 as stated: CalculatePlayerPoints raises the name error for every name
\* that does not have exactly two space-separated parts.
C4_NotTwoPartsRaises ==
  (call.made /\ NumTokens(profile.name) # 2) => calc_err = ErrUnpack

\* C4 as amended: CalculatePlayerPoints raises the name error exactly for the
\* names that hold no space; a name of three or more parts is cut at its
\* first space and does not raise it.
C4_NoSpaceRaises ==
  call.made => (calc_err = ErrUnpack <=> ~HasSpace(profile.name))

C4_Witness ==
  call.made /\ NumTokens(profile.name) = 1 /\ calc_err = ErrUnpack

\* C5: AddPlayers on a loaded registry with names that all parse returns, and
\* the registry has gained one profile per name in the given order.
C5_AddPlayersAddsEach ==
  ( /\ lastOp.op = "AddPlayers"
    /\ dl_list.state = "list"
    /\ Len(lastOp.arg.value) >= 1
    /\ \A i \in 1..Len(lastOp.arg.value) : HasSpace(lastOp.arg.value[i]) )
  => (err = "none" /\ NamesOf(players) = NamesOf(pre.players) \o lastOp.arg.value)

\* the requested names that the registry did not hold, each once, in the
\* order of their first request
MissingOnce(req, ps) ==
  LET idx == SortedSeq({i \in 1..Len(req) :
                          /\ \A j \in 1..Len(ps) : ps[j].name # req[i]
                          /\ \A j \in 1..(i-1) : req[j] # req[i]})
  IN [k \in 1..Len(idx) |-> req[idx[k]]]

\* C6: a PlotPlayerPoints call that returns on a loaded registry has added,
\* after the profiles already held, one profile per distinct requested name
\* that was missing; every requested name then has a profile with a computed
\* series, and the line drawn for it carries that name.
C6_PlotAddsMissing ==
  ( /\ lastOp.op = "PlotPlayerPoints"
    /\ ~lastOp.arg.isNone
    /\ dl_list.state = "list"
    /\ err = "none" )
  => LET req == lastOp.arg.value
     IN /\ SubSeq(players, 1, Len(pre.players)) = pre.players
        /\ NamesOf(players) = NamesOf(pre.players) \o MissingOnce(req, pre.players)
        /\ \A i \in 1..Len(req) :
              \E j \in 1..Len(players) :
                 /\ players[j].name = req[i]
                 /\ ~players[j].league_points.isNone
        /\ Len(ret.value) = Len(req)
        /\ \A i \in 1..Len(req) : ret.value[i].label = req[i]

C6_Witness ==
  /\ lastOp.op = "PlotPlayerPoints"
  /\ ~lastOp.arg.isNone
  /\ err = "none"
  /\ Len(pre.players) = 1
  /\ Len(players) = 2
  /\ \E i \in 1..Len(lastOp.arg.value) : lastOp.arg.value[i] = pre.players[1].name

\* what identifies a game-log row within its file
RowId(row) == << row.Name, row.Season, row.Week, row.Year >>
RowIds(df) == [i \in 1..Len(df) |-> RowId(df[i])]
SeasonsKept(include_post_season) ==
  IF include_post_season THEN {"Regular Season", "Postseason"} ELSE {"Regular Season"}
SelectedFrame == SelectFrame(call.df_list, KeyOf(profile.name))

\* C7: the rows that reach the yearly totals are the player's rows of the
\* selected file whose season is kept, without the rows of week 17 of any
\* season when remove_week17 is set; the rows kept with the postseason are a
\* superset of those kept without it.
C7_RetainedRows ==
  (call.made /\ calc_err # ErrUnpack) =>
    /\ RowIds(calc_df_player) =
         RowIds(SelectSeq(SelectedFrame, LAMBDA row :
                   /\ StrUpper(row.Name) = StrUpper(KeyOf(profile.name))
                   /\ row.Season \in SeasonsKept(call.include_post_season)
                   /\ ~(call.remove_week17 /\ row.Week = 17)))
    /\ ~call.include_post_season =>
         LET withPost == Calc(profile.name, call.df_list, call.league_settings,
                              TRUE, call.remove_week17).df_player
         IN \A i \in 1..Len(calc_df_player) :
               \E j \in 1..Len(withPost) : RowId(withPost[j]) = RowId(calc_df_player[i])

C7_Witness ==
  /\ call.made
  /\ call.include_post_season
  /\ call.remove_week17
  /\ \E i \in 1..Len(calc_df_player) : calc_df_player[i].Season = "Postseason"
  /\ \E j \in 1..Len(SelectedFrame) :
        /\ SelectedFrame[j].Season = "Postseason"
        /\ SelectedFrame[j].Week = 17
        /\ StrUpper(SelectedFrame[j].Name) = StrUpper(KeyOf(profile.name))

\* the column header of each scoring category that the game logs carry
CategoryColumn ==
  (k_passing_yards :> c_Passing_Yards) @@ (k_passing_tds :> c_Passing_Tds)
  @@ (k_interceptions :> c_Interceptions) @@ (k_rushing_yards :> c_Rushing_Yards)
  @@ (k_receptions :> c_Receptions) @@ (k_receiving_yards :> c_Receiving_Yards)
  @@ (k_extra_point :> c_Extra_Point) @@ (k_fg_50_plus :> c_Fg_50_Plus)

\* the sum of F(1), ..., F(n)
SumTo(F(_), n) ==
  LET s[i \in 0..n] == IF i = 0 THEN 0 ELSE s[i - 1] + F(i)
  IN s[n]

\* the value a raw cell adds to its category: nothing when the row has no
\* such column or the cell holds the "--" of an empty cell
CellValue(row, key) ==
  IF key \notin DOMAIN CategoryColumn THEN 0
  ELSE IF CategoryColumn[key] \notin DOMAIN row.stats THEN 0
  ELSE IF row.stats[CategoryColumn[key]] = NoData THEN 0
  ELSE row.stats[CategoryColumn[key]][2]

\* the raw rows of the selected file behind the rows the call retained
RawRetained ==
  SelectSeq(SelectedFrame, LAMBDA row :
     \E i \in 1..Len(calc_df_player) : RowId(calc_df_player[i]) = RowId(row))

ExpectedPoints(year) ==
  LET rows == SelectSeq(RawRetained, LAMBDA row : row.Year = year)
      CategoryTotal(key) == LET V(j) == CellValue(rows[j], key) IN SumTo(V, Len(rows))
      Term(i) == CategoryTotal(call.league_settings[i][1]) * call.league_settings[i][2]
  IN SumTo(Term, Len(call.league_settings))

\* C8: a call that returns leaves one entry per year of the retained rows,
\* in ascending order, whose points are the sum over the scoring categories
\* of the year's column total times the weight, a category without a column
\* and an empty cell adding nothing; with the default settings the year of
\* 4000 passing yards, 30 passing touchdowns and 10 interceptions has 270
\* points (27000 hundredths).
C8_WeightedSum ==
  (call.made /\ calc_err = "none") =>
    LET out == profile.league_points.rows
    IN /\ {out[k].years : k \in 1..Len(out)} =
            {calc_df_player[i].Year : i \in 1..Len(calc_df_player)}
       /\ \A k \in 1..Len(out) : out[k].points = ExpectedPoints(out[k].years)
       /\ \A k \in 1..(Len(out) - 1) : out[k].years < out[k+1].years
       /\ ( /\ StrUpper(KeyOf(profile.name)) = StrUpper(r_B_T)
            /\ call.df_list = FileSystem("Data")
            /\ call.league_settings = DefaultSettings
            /\ ~call.include_post_season
            /\ call.remove_week17 )
          => \E k \in 1..Len(out) : out[k] = [years |-> 2016, points |-> 27000]

C8_Witness ==
  /\ call.made
  /\ calc_err = "none"
  /\ profile.name = n_t_b
  /\ call.df_list = FileSystem("Data")
  /\ call.league_settings = DefaultSettings
  /\ \E k \in 1..Len(profile.league_points.rows) :
        profile.league_points.rows[k] = [years |-> 2016, points |-> 27000]
  /\ \E i \in 1..Len(RawRetained) :
        RawRetained[i].Year = 2016 /\ RawRetained[i].stats[c_Interceptions] = NoData

\* C9: an AddPlayer call that returns has appended exactly the profile it
\* returns, named as asked, to the list as it was, also when the name is
\* already held; the list holds one profile per returned AddPlayer call, in
\* call order.
C9_AddPlayerAppends ==
  /\ (lastOp.op = "AddPlayer" /\ err = "none") =>
        /\ ret.kind = "profile"
        /\ ret.value.name = lastOp.arg.value
        /\ ~ret.value.league_points.isNone
        /\ players = Append(pre.players, ret.value)
  /\ NamesOf(players) = addLog

C9_Witness ==
  /\ lastOp.op = "AddPlayer"
  /\ err = "none"
  /\ Len(players) = 2
  /\ players[1].name = players[2].name

\* C10: an AddPlayer or ChangeLeagueSettings call that raises leaves the
\* player list and the active league settings as they were before the call.
C10_FailureLeavesState ==
  (lastOp.op \in {"AddPlayer", "ChangeLeagueSettings"} /\ err # "none") =>
     (players = pre.players /\ league_settings = pre.league_settings)
====
